---- MODULE Spec2Model ----
(***************************************************************************)
(* Real-time event distribution of the communities backend:                *)
(*   - ConnectionManager (services/websocket_manager.py): the in-memory    *)
(*     registry of live sockets and their community / thread memberships,  *)
(*     and its broadcast operations;                                       *)
(*   - RedisBroker (services/redis_broker.py): the pub/sub relay and the   *)
(*     CRUD-side publish helpers;                                          *)
(*   - the gateway glue of main.py (relay listener, connection route).     *)
(*                                                                         *)
(* Python dicts are functions whose DOMAIN is the set of present keys.     *)
(* A channel name "community:<id>" is the pair <<"community", id>>: the    *)
(* pair keeps exactly what startswith('community:') and split(':', 1)[1]   *)
(* read from the string.                                                   *)
(***************************************************************************)
EXTENDS Integers, Sequences, FiniteSets, TLC

\* ---------------------------------------------------------------- bounds
MaxBroadcasts == 1
MaxEvents == 2
MaxCalls == 2
MaxApiCalls == 3
MaxFrames == 3
\* deliveries the relay makes to its handler
MaxDeliveries == 1

\* the connection handles, identities and topic ids of the scenarios
Sockets == {"A", "B"}
Users == {"alice", "bob"}
CommunityIds == {"123", "*"}
ThreadIds == {"42"}

\* ---------------------------------------------------------------- state
VARIABLES
    community_connections,  \* dict community_id -> set of sockets
    thread_connections,     \* dict thread_id -> set of sockets
    user_connections,       \* dict user_id -> socket
    connection_metadata,    \* dict socket -> [user_id, communities, threads]
    sock,                   \* per socket handle: "new", "open", "dropped", "closed"
    inbox,                  \* per socket: the frames send_text delivered, in order
    bc,                     \* the broadcast call in progress (or the last one)
    bcount,                 \* number of broadcast calls started
    unreg_count,            \* per socket: disconnect calls that changed the registry
    redis_client,           \* RedisBroker.redis_client is set
    pubsub,                 \* RedisBroker.pubsub: [init, channels, queue]
    subscribers,            \* RedisBroker.subscribers: dict channel -> callback
    listen_pc,              \* position of listen_to_redis
    published,              \* every message the transport was given, in order
    handled,                \* every callback invocation of the listen loop, in order
    crud_calls,             \* every call of a CRUD-side publish helper, with its outcome
    call,                   \* the latest call made on the manager or frame read by a route
    route                   \* per socket handle: how far websocket_route_old got with it

regvars == <<community_connections, thread_connections, user_connections,
             connection_metadata>>

relayvars == <<redis_client, pubsub, subscribers, listen_pc, published, handled>>

gwvars == <<call, route>>

vars == <<community_connections, thread_connections, user_connections,
          connection_metadata, sock, inbox, bc, bcount, unreg_count,
          redis_client, pubsub, subscribers, listen_pc, published, handled, crud_calls,
          call, route>>

\* ---------------------------------------------------------------- dict helpers
DictSet(d, k, v) == [x \in (DOMAIN d) \cup {k} |-> IF x = k THEN v ELSE d[x]]

DictDel(d, k) == [x \in (DOMAIN d) \ {k} |-> d[x]]

DictGet(d, k, default) == IF k \in DOMAIN d THEN d[k] ELSE default

EmptyDict == [x \in {} |-> {}]

\* ---------------------------------------------------------------- registry
Reg ==
    [cc |-> community_connections, tc |-> thread_connections,
     uc |-> user_connections, meta |-> connection_metadata]

SetReg(r) ==
    /\ community_connections' = r.cc
    /\ thread_connections' = r.tc
    /\ user_connections' = r.uc
    /\ connection_metadata' = r.meta

\* if key not in index: index[key] = set();  index[key].add(ws)
TopicAdd(index, key, ws) == DictSet(index, key, DictGet(index, key, {}) \cup {ws})

TopicDiscardKeepsEmpty(index, key, ws) ==
    IF key \in DOMAIN index THEN DictSet(index, key, index[key] \ {ws}) ELSE index

TopicDiscardDropsEntry(index, key, ws) ==
    IF key \in DOMAIN index THEN DictDel(index, key) ELSE index

\* if key in index: index[key].discard(ws); if not index[key]: del index[key]
TopicDiscard(index, key, ws) ==
    IF key \in DOMAIN index
    THEN IF index[key] \ {ws} = {} THEN DictDel(index, key)
         ELSE DictSet(index, key, index[key] \ {ws})
    ELSE index

\* for key in keys: the discard-and-delete step above (the order of keys is immaterial)
TopicDiscardAll(index, keys, ws) ==
    [k \in {x \in DOMAIN index : ~(x \in keys /\ index[x] \ {ws} = {})} |->
        IF k \in keys THEN index[k] \ {ws} ELSE index[k]]

connect_evicts_previous(r, ws, user_id) ==
    LET base == IF user_id \in DOMAIN r.uc /\ r.uc[user_id] # ws
                THEN [r EXCEPT !.cc = [k \in {x \in DOMAIN r.cc : r.cc[x] # {r.uc[user_id]}} |->
                                          r.cc[k] \ {r.uc[user_id]}],
                               !.tc = [k \in {x \in DOMAIN r.tc : r.tc[x] # {r.uc[user_id]}} |->
                                          r.tc[k] \ {r.uc[user_id]}],
                               !.meta = DictDel(r.meta, r.uc[user_id])]
                ELSE r
    IN  [base EXCEPT !.uc = DictSet(base.uc, user_id, ws),
                     !.meta = DictSet(base.meta, ws,
                         [user_id |-> user_id, communities |-> {}, threads |-> {}])]

\* ConnectionManager.connect, after websocket.accept() has returned
connect(r, ws, user_id) ==
    [r EXCEPT !.uc = DictSet(r.uc, user_id, ws),
              !.meta = DictSet(r.meta, ws,
                  [user_id |-> user_id, communities |-> {}, threads |-> {}])]

disconnect_keeps_metadata(r, ws) ==
    IF ws \in DOMAIN r.meta
    THEN LET m == r.meta[ws] IN
         [cc |-> TopicDiscardAll(r.cc, m.communities, ws),
          tc |-> TopicDiscardAll(r.tc, m.threads, ws),
          uc |-> IF m.user_id \in DOMAIN r.uc THEN DictDel(r.uc, m.user_id) ELSE r.uc,
          meta |-> r.meta]
    ELSE r

\* ConnectionManager.disconnect
disconnect(r, ws) ==
    IF ws \in DOMAIN r.meta
    THEN LET m == r.meta[ws] IN
         [cc |-> TopicDiscardAll(r.cc, m.communities, ws),
          tc |-> TopicDiscardAll(r.tc, m.threads, ws),
          uc |-> IF m.user_id \in DOMAIN r.uc THEN DictDel(r.uc, m.user_id) ELSE r.uc,
          meta |-> DictDel(r.meta, ws)]
    ELSE r

join_community_index_only(r, ws, community_id) ==
    [r EXCEPT !.cc = TopicAdd(r.cc, community_id, ws)]

\* ConnectionManager.join_community
join_community(r, ws, community_id) ==
    [r EXCEPT !.cc = TopicAdd(r.cc, community_id, ws),
              !.meta = IF ws \in DOMAIN r.meta
                       THEN [r.meta EXCEPT ![ws].communities = @ \cup {community_id}]
                       ELSE r.meta]

\* ConnectionManager.leave_community
leave_community(r, ws, community_id) ==
    [r EXCEPT !.cc = TopicDiscard(r.cc, community_id, ws),
              !.meta = IF ws \in DOMAIN r.meta
                       THEN [r.meta EXCEPT ![ws].communities = @ \ {community_id}]
                       ELSE r.meta]

\* ConnectionManager.join_thread
join_thread(r, ws, thread_id) ==
    [r EXCEPT !.tc = TopicAdd(r.tc, thread_id, ws),
              !.meta = IF ws \in DOMAIN r.meta
                       THEN [r.meta EXCEPT ![ws].threads = @ \cup {thread_id}]
                       ELSE r.meta]

\* ConnectionManager.leave_thread
leave_thread(r, ws, thread_id) ==
    [r EXCEPT !.tc = TopicDiscard(r.tc, thread_id, ws),
              !.meta = IF ws \in DOMAIN r.meta
                       THEN [r.meta EXCEPT ![ws].threads = @ \ {thread_id}]
                       ELSE r.meta]

\* ---------------------------------------------------------------- broadcast
NoMsg == [type |-> "none", eid |-> 0]

IdleBc ==
    [pc |-> "idle", kind |-> "none", key |-> "none", msg |-> NoMsg, caller |-> "none",
     at_call |-> {}, snapshot |-> {}, visited |-> <<>>, disconnected |-> <<>>]

\* the dict a topic broadcast reads: community_connections or thread_connections
Index(r, kind) == IF kind = "community" THEN r.cc ELSE r.tc

\* the connections a broadcast addresses, as the registry holds them now
MembersNow(r, kind, key) ==
    IF kind = "all" THEN DOMAIN r.meta ELSE DictGet(Index(r, kind), key, {})

\* websocket in index.get(key, set()), for the index of that kind
InTopic(r, kind, key, ws) == ws \in DictGet(Index(r, kind), key, {})

\* the collection the for loop of a broadcast is given:
\*   self.community_connections[community_id].copy(), self.thread_connections[thread_id].copy(),
\*   list(self.connection_metadata.keys())
Recipients(r, kind, key) ==
    IF kind = "all" THEN DOMAIN r.meta ELSE Index(r, kind)[key]

broadcast_begin_unguarded(r, kind, key, msg, caller) ==
    IF kind = "all" \/ key \in DOMAIN Index(r, kind)
    THEN [IdleBc EXCEPT !.pc = "send", !.kind = kind, !.key = key, !.msg = msg,
                        !.caller = caller, !.at_call = MembersNow(r, kind, key),
                        !.snapshot = Recipients(r, kind, key)]
    ELSE [IdleBc EXCEPT !.pc = "raised"]

\* broadcast_to_community / broadcast_to_thread / broadcast_to_all up to the for loop:
\* `if key in index` (absent: the call returns at once), disconnected = [], the snapshot
broadcast_begin(r, kind, key, msg, caller) ==
    IF kind = "all" \/ key \in DOMAIN Index(r, kind)
    THEN [IdleBc EXCEPT !.pc = "send", !.kind = kind, !.key = key, !.msg = msg,
                        !.caller = caller, !.at_call = MembersNow(r, kind, key),
                        !.snapshot = Recipients(r, kind, key)]
    ELSE IdleBc

IterSourceLive(b, r) == MembersNow(r, b.kind, b.key)

\* what the for loop iterates: the copy taken when the loop was entered
IterSource(b, r) == b.snapshot

Visited(b) == {b.visited[i].ws : i \in DOMAIN b.visited}

Sent(b) == {b.visited[i].ws : i \in {j \in DOMAIN b.visited : b.visited[j].ok}}

Failed(b) == {b.visited[i].ws : i \in {j \in DOMAIN b.visited : ~b.visited[j].ok}}

Pending(b, r) == IterSource(b, r) \ Visited(b)

OnSendErrorPropagate(b, ws) == [b EXCEPT !.pc = "raised"]

\* except Exception: logger.error(...); disconnected.append(websocket)
OnSendError(b, ws) == [b EXCEPT !.disconnected = Append(@, ws)]

\* websocket.send_text raises when the peer is gone, and delivers the frame otherwise
SendSucceeds(ws) == sock[ws] = "open"

\* what broadcast_to_community / broadcast_to_thread hands back to its caller: both bodies
\* end after the cleanup loop (or after the failed `if key in index`) without a return
\* statement
broadcast_return(b) == [kind |-> "None"]

RECURSIVE DisconnectAll(_, _)
\* for websocket in disconnected: self.disconnect(websocket)
DisconnectAll(r, s) ==
    IF s = <<>> THEN r ELSE DisconnectAll(disconnect(r, Head(s)), Tail(s))

RECURSIVE CountEffects(_, _, _)
\* unreg_count after disconnect was called for each socket of s in turn
CountEffects(r, s, cnt) ==
    IF s = <<>> THEN cnt
    ELSE LET r2 == disconnect(r, Head(s)) IN
         CountEffects(r2, Tail(s),
             IF r2 # r THEN [cnt EXCEPT ![Head(s)] = @ + 1] ELSE cnt)

\* ---------------------------------------------------------------- relay
\* RedisBroker.get_community_channel / get_thread_channel / get_global_channel
get_community_channel(community_id) == <<"community", community_id>>

get_thread_channel(thread_id) == <<"thread", thread_id>>

get_global_channel == <<"global", "notifications">>

\* channel.startswith(prefix + ':')
startswith(channel, prefix) == channel[1] = prefix

\* channel.split(':', 1)[1]
split_id(channel) == channel[2]

\* the channels listen_to_redis subscribes, in its order
Patterns == <<<<"community", "*">>, <<"thread", "*">>, <<"global", "*">>>>

\* the channels the model publishes on
Channels ==
    {get_community_channel(c) : c \in CommunityIds}
        \cup {get_thread_channel(t) : t \in ThreadIds}
        \cup {get_global_channel}

\* the event type the CRUD side publishes on a channel of each kind
TypeOn(channel) ==
    IF startswith(channel, "community") THEN "member_joined"
    ELSE IF startswith(channel, "thread") THEN "new_message"
    ELSE "notification"

NoPubsub == [init |-> FALSE, channels |-> {}, queue |-> <<>>]

\* the transport's PUBLISH: the message is queued on the pubsub connection when the
\* connection holds a subscription (SUBSCRIBE: the channel's exact name) to the channel
transport_publish(ps, channel, msg) ==
    IF channel \in ps.channels
    THEN [ps EXCEPT !.queue = Append(@, [type |-> "message", channel |-> channel, data |-> msg])]
    ELSE ps

\* pubsub.subscribe(channel): the subscription, and the transport's confirmation message
transport_subscribe(ps, channel) ==
    [ps EXCEPT !.channels = @ \cup {channel},
               !.queue = Append(@, [type |-> "subscribe", channel |-> channel, data |-> NoMsg])]

HandlerTargetThreadAsCommunity(channel) ==
    IF startswith(channel, "community") \/ startswith(channel, "thread")
    THEN <<"community", split_id(channel)>>
    ELSE IF channel = get_global_channel THEN <<"all", "none">>
    ELSE <<"none", "none">>

\* redis_message_handler: the broadcast the channel is routed to, <<kind, key>>
HandlerTarget(channel) ==
    IF startswith(channel, "community") THEN <<"community", split_id(channel)>>
    ELSE IF startswith(channel, "thread") THEN <<"thread", split_id(channel)>>
    ELSE IF channel = get_global_channel THEN <<"all", "none">>
    ELSE <<"none", "none">>

\* RedisBroker.listen, the body of the async for: is the callback invoked for `message`
Dispatches(subs, message) ==
    /\ message.type = "message"
    /\ message.channel \in DOMAIN subs

\* ---------------------------------------------------------------- calls and frames
\* a client frame as the read loop sees it: json is "object" (a JSON object), "array"
\* (valid JSON that is no object) or "invalid"; a key the object lacks reads "None",
\* which is what message.get returns for it
NoFrame ==
    [json |-> "none", action |-> "None", community_id |-> "None", thread_id |-> "None",
     user_id |-> "None"]

\* the record of a call: its number, the method, its arguments, what it returned, which
\* call inside it raised ("none": it returned), and whether the socket was in the
\* addressed topic set when the call was made
NoCall ==
    [n |-> 0, op |-> "none", ws |-> "none", user_id |-> "None", key |-> "None",
     ret |-> "None", raised |-> "none", pre |-> FALSE, frame |-> NoFrame]

NoRoute ==
    [pc |-> "idle", authenticated |-> FALSE, registered |-> 0, unregistered |-> 0,
     raised |-> "none"]

\* ---------------------------------------------------------------- actions
Init ==
    /\ community_connections = EmptyDict
    /\ thread_connections = EmptyDict
    /\ user_connections = EmptyDict
    /\ connection_metadata = EmptyDict
    /\ sock = [ws \in Sockets |-> "new"]
    /\ inbox = [ws \in Sockets |-> <<>>]
    /\ bc = IdleBc
    /\ bcount = 0
    /\ unreg_count = [ws \in Sockets |-> 0]
    /\ redis_client = FALSE
    /\ pubsub = NoPubsub
    /\ subscribers = EmptyDict
    /\ listen_pc = "start"
    /\ published = <<>>
    /\ handled = <<>>
    /\ crud_calls = <<>>
    /\ call = NoCall
    /\ route = [ws \in Sockets |-> NoRoute]

HandlerRunning(ws) == sock[ws] \in {"open", "dropped"}

\* a connection route is entered with a fresh socket handle and registers it;
\* when the handshake (websocket.accept) raises nothing is registered
RouteOpen(ws, user_id, accepted) ==
    /\ sock[ws] = "new"
    /\ IF accepted
       THEN /\ SetReg(connect(Reg, ws, user_id))
            /\ sock' = [sock EXCEPT ![ws] = "open"]
       ELSE /\ SetReg(disconnect(Reg, ws))
            /\ sock' = [sock EXCEPT ![ws] = "closed"]
    /\ UNCHANGED <<inbox, bc, bcount, unreg_count, relayvars, crud_calls, gwvars>>

\* the route's read loop ends (close, error): finally: disconnect
RouteClose(ws) ==
    /\ HandlerRunning(ws)
    /\ SetReg(disconnect(Reg, ws))
    /\ unreg_count' = CountEffects(Reg, <<ws>>, unreg_count)
    /\ sock' = [sock EXCEPT ![ws] = "closed"]
    /\ UNCHANGED <<inbox, bc, bcount, relayvars, crud_calls, gwvars>>

\* the peer goes away without a close frame; the route has not noticed yet
PeerDrop(ws) ==
    /\ sock[ws] = "open"
    /\ sock' = [sock EXCEPT ![ws] = "dropped"]
    /\ UNCHANGED <<regvars, inbox, bc, bcount, unreg_count, relayvars, crud_calls, gwvars>>

\* handle_websocket_message, action == 'join_community'
ClientJoinCommunity(ws, community_id) ==
    /\ HandlerRunning(ws)
    /\ SetReg(join_community(Reg, ws, community_id))
    /\ UNCHANGED <<sock, inbox, bc, bcount, unreg_count, relayvars, crud_calls, gwvars>>

\* handle_websocket_message, action == 'leave_community'
ClientLeaveCommunity(ws, community_id) ==
    /\ HandlerRunning(ws)
    /\ SetReg(leave_community(Reg, ws, community_id))
    /\ UNCHANGED <<sock, inbox, bc, bcount, unreg_count, relayvars, crud_calls, gwvars>>

\* handle_websocket_message, action == 'join_thread'
ClientJoinThread(ws, thread_id) ==
    /\ HandlerRunning(ws)
    /\ SetReg(join_thread(Reg, ws, thread_id))
    /\ UNCHANGED <<sock, inbox, bc, bcount, unreg_count, relayvars, crud_calls, gwvars>>

\* handle_websocket_message, action == 'leave_thread'
ClientLeaveThread(ws, thread_id) ==
    /\ HandlerRunning(ws)
    /\ SetReg(leave_thread(Reg, ws, thread_id))
    /\ UNCHANGED <<sock, inbox, bc, bcount, unreg_count, relayvars, crud_calls, gwvars>>

\* a caller enters broadcast_to_community / broadcast_to_thread / broadcast_to_all
BroadcastCall(kind, key, type) ==
    /\ bc.pc = "idle"
    /\ listen_pc # "callback"
    /\ bcount < MaxBroadcasts
    /\ bcount' = bcount + 1
    /\ bc' = broadcast_begin(Reg, kind, key, [type |-> type, eid |-> bcount + 1], "direct")
    /\ UNCHANGED <<regvars, sock, inbox, unreg_count, relayvars, crud_calls, gwvars>>

\* one iteration of the for loop: try: await websocket.send_text(json.dumps(message))
BroadcastSend(ws) ==
    /\ bc.pc = "send"
    /\ ws \in Pending(bc, Reg)
    /\ LET b == [bc EXCEPT !.visited = Append(@, [ws |-> ws, ok |-> SendSucceeds(ws)])] IN
       IF SendSucceeds(ws)
       THEN /\ inbox' = [inbox EXCEPT ![ws] = Append(@, bc.msg)]
            /\ bc' = b
       ELSE /\ inbox' = inbox
            /\ bc' = OnSendError(b, ws)
    /\ UNCHANGED <<regvars, sock, bcount, unreg_count, relayvars, crud_calls, gwvars>>

\* the for loop is exhausted: clean up the disconnected sockets and return; a broadcast
\* the relay's callback awaited returns into the listen loop
BroadcastCleanup ==
    /\ bc.pc = "send"
    /\ Pending(bc, Reg) = {}
    /\ SetReg(DisconnectAll(Reg, bc.disconnected))
    /\ unreg_count' = CountEffects(Reg, bc.disconnected, unreg_count)
    /\ bc' = IdleBc
    /\ listen_pc' = IF bc.caller = "relay" THEN "listening" ELSE listen_pc
    /\ UNCHANGED <<sock, inbox, bcount, redis_client, pubsub, subscribers, published,
                   handled, crud_calls, gwvars>>

\* listen_to_redis: await redis_broker.connect()
ListenerConnect(ok) ==
    /\ listen_pc = "start"
    /\ IF ok
       THEN /\ redis_client' = TRUE
            /\ pubsub' = [NoPubsub EXCEPT !.init = TRUE]
            /\ listen_pc' = "subscribe"
       ELSE /\ listen_pc' = "returned"
            /\ UNCHANGED <<redis_client, pubsub>>
    /\ UNCHANGED <<regvars, sock, inbox, bc, bcount, unreg_count, subscribers, published,
                   handled, crud_calls, gwvars>>

SubscribedAll == \A i \in DOMAIN Patterns : Patterns[i] \in DOMAIN subscribers

NextPattern ==
    Patterns[CHOOSE i \in DOMAIN Patterns :
        /\ Patterns[i] \notin DOMAIN subscribers
        /\ \A j \in 1..(i - 1) : Patterns[j] \in DOMAIN subscribers]

\* listen_to_redis: await redis_broker.subscribe(pattern, redis_message_handler), thrice;
\* RedisBroker.subscribe raises without a pubsub and re-raises a transport error
ListenerSubscribe(ok) ==
    /\ listen_pc = "subscribe"
    /\ ~SubscribedAll
    /\ IF pubsub.init /\ ok
       THEN /\ pubsub' = transport_subscribe(pubsub, NextPattern)
            /\ subscribers' = DictSet(subscribers, NextPattern, "redis_message_handler")
            /\ listen_pc' = IF \A i \in DOMAIN Patterns : Patterns[i] \in DOMAIN subscribers'
                            THEN "listening" ELSE "subscribe"
       ELSE /\ listen_pc' = "returned"
            /\ UNCHANGED <<pubsub, subscribers>>
    /\ UNCHANGED <<regvars, sock, inbox, bc, bcount, unreg_count, redis_client, published,
                   handled, crud_calls, gwvars>>

\* RedisBroker.listen: one message of `async for message in self.pubsub.listen()`;
\* a dispatched message runs redis_message_handler up to its broadcast call
ListenerStep ==
    /\ listen_pc = "listening"
    /\ pubsub.init
    /\ pubsub.queue # <<>>
    /\ bc.pc = "idle"
    /\ LET message == Head(pubsub.queue)
           target == HandlerTarget(message.channel)
           b == IF target[1] = "none" THEN IdleBc
                ELSE broadcast_begin(Reg, target[1], target[2], message.data, "relay")
       IN /\ pubsub' = [pubsub EXCEPT !.queue = Tail(@)]
          /\ IF Dispatches(subscribers, message)
             THEN /\ handled' = Append(handled, [channel |-> message.channel, msg |-> message.data])
                  /\ bc' = b
                  /\ listen_pc' = IF b.pc = "send" THEN "callback" ELSE "listening"
             ELSE UNCHANGED <<handled, bc, listen_pc>>
    /\ UNCHANGED <<regvars, sock, inbox, bcount, unreg_count, redis_client, subscribers,
                   published, crud_calls, gwvars>>

\* the transport raises inside pubsub.listen(): except Exception: logger.error(...), and
\* listen returns; listen_to_redis returns after it and the listener thread ends
TransportError ==
    /\ listen_pc = "listening"
    /\ listen_pc' = "returned"
    /\ UNCHANGED <<regvars, sock, inbox, bc, bcount, unreg_count, redis_client, pubsub,
                   subscribers, published, handled, crud_calls, gwvars>>

\* the listener task is cancelled: CancelledError is no Exception and leaves both handlers
ListenerCancel ==
    /\ listen_pc = "listening"
    /\ listen_pc' = "cancelled"
    /\ UNCHANGED <<regvars, sock, inbox, bc, bcount, unreg_count, redis_client, pubsub,
                   subscribers, published, handled, crud_calls, gwvars>>

Live == listen_pc \in {"listening", "callback"}

\* RedisBroker.publish, awaited: raises without a client, else hands the message over
publish(channel, msg) ==
    /\ redis_client
    /\ published' = Append(published, [channel |-> channel, msg |-> msg, live |-> Live])
    /\ pubsub' = transport_publish(pubsub, channel, msg)

\* some publisher awaits redis_broker.publish(channel, message)
RelayPublish(channel, type) ==
    /\ Len(published) < MaxEvents
    /\ publish(channel, [type |-> type, eid |-> Len(published) + 1])
    /\ UNCHANGED <<regvars, sock, inbox, bc, bcount, unreg_count, redis_client, subscribers,
                   listen_pc, handled, crud_calls, gwvars>>

Topics ==
    ({"community"} \X CommunityIds) \cup ({"thread"} \X ThreadIds) \cup {<<"all", "none">>}

Next ==
    \/ \E ws \in Sockets, u \in Users, ok \in BOOLEAN : RouteOpen(ws, u, ok)
    \/ \E ws \in Sockets : RouteClose(ws)
    \/ \E ws \in Sockets : PeerDrop(ws)
    \/ \E ws \in Sockets, c \in CommunityIds : ClientJoinCommunity(ws, c)
    \/ \E ws \in Sockets, c \in CommunityIds : ClientLeaveCommunity(ws, c)
    \/ \E ws \in Sockets, t \in ThreadIds : ClientJoinThread(ws, t)
    \/ \E ws \in Sockets, t \in ThreadIds : ClientLeaveThread(ws, t)
    \/ \E tp \in Topics, ty \in {"typing"} : BroadcastCall(tp[1], tp[2], ty)
    \/ \E ws \in Sockets : BroadcastSend(ws)
    \/ BroadcastCleanup

\* the registry under its callers: connection routes, client control frames, broadcasts
Spec == Init /\ [][Next]_vars

\* the end-to-end scenarios: the clients connect and join before the first event is
\* published, so every published event finds the memberships the final state shows
EarlyOpen(ws, user_id) == published = <<>> /\ RouteOpen(ws, user_id, TRUE)

EarlyJoinCommunity(ws, community_id) ==
    published = <<>> /\ ClientJoinCommunity(ws, community_id)

NextRelay ==
    \/ \E ws \in Sockets, u \in Users : EarlyOpen(ws, u)
    \/ \E ws \in Sockets, c \in CommunityIds : EarlyJoinCommunity(ws, c)
    \/ \E ok \in BOOLEAN : ListenerConnect(ok)
    \/ \E ok \in BOOLEAN : ListenerSubscribe(ok)
    \/ ListenerStep
    \/ TransportError
    \/ ListenerCancel
    \/ \E ch \in Channels : RelayPublish(ch, TypeOn(ch))
    \/ \E ws \in Sockets : BroadcastSend(ws)
    \/ BroadcastCleanup

\* the gateway: the relay listener of main.py feeding the registry's broadcasts
SpecRelay == Init /\ [][NextRelay]_vars

\* ---------------------------------------------------------------- CRUD-side helpers
\* what one helper call did: rec.pubs messages handed to the transport, on rec.channel;
\* rec.connected: the broker had its client, rec.in_loop: the caller's thread ran a loop
CallRecord(helper, key, in_loop, pubs, channel, raised) ==
    [helper |-> helper, key |-> key, connected |-> redis_client, in_loop |-> in_loop,
     pubs |-> pubs, channel |-> channel, raised |-> raised]

NoChannel == <<"none", "none">>

\* publish_thread_event(thread_data, event_type); community_id "none" is a thread_data
\* without community_id. asyncio.run raises inside a running event loop without running
\* the coroutine; otherwise it runs RedisBroker.publish to its end
publish_thread_event(community_id, type, running_loop) ==
    /\ Len(crud_calls) < MaxCalls
    /\ LET channel == get_community_channel(community_id) IN
       IF community_id = "none"
       THEN /\ crud_calls' = Append(crud_calls,
                    CallRecord("publish_thread_event", community_id, running_loop, 0, NoChannel, FALSE))
            /\ UNCHANGED <<published, pubsub>>
       ELSE IF running_loop \/ ~redis_client
       THEN /\ crud_calls' = Append(crud_calls,
                    CallRecord("publish_thread_event", community_id, running_loop, 0, NoChannel, TRUE))
            /\ UNCHANGED <<published, pubsub>>
       ELSE /\ publish(channel, [type |-> type, eid |-> Len(published) + 1])
            /\ crud_calls' = Append(crud_calls,
                    CallRecord("publish_thread_event", community_id, running_loop, 1, channel, FALSE))
    /\ UNCHANGED <<regvars, sock, inbox, bc, bcount, unreg_count, redis_client, subscribers,
                   listen_pc, handled, gwvars>>

\* publish_message_event(message_data, event_type): redis_broker.publish(channel, message)
\* is called without await, which builds a coroutine object and never runs it
publish_message_event(thread_id, type) ==
    /\ Len(crud_calls) < MaxCalls
    /\ crud_calls' = Append(crud_calls,
            CallRecord("publish_message_event", thread_id, FALSE, 0, NoChannel, FALSE))
    /\ UNCHANGED <<regvars, sock, inbox, bc, bcount, unreg_count, relayvars, gwvars>>

\* publish_member_event(member_data, community_id, event_type): the same unawaited call
publish_member_event(community_id, type) ==
    /\ Len(crud_calls) < MaxCalls
    /\ crud_calls' = Append(crud_calls,
            CallRecord("publish_member_event", community_id, FALSE, 0, NoChannel, FALSE))
    /\ UNCHANGED <<regvars, sock, inbox, bc, bcount, unreg_count, relayvars, gwvars>>

NextPublish ==
    \/ \E ok \in BOOLEAN : ListenerConnect(ok)
    \/ \E ok \in BOOLEAN : ListenerSubscribe(ok)
    \/ \E c \in CommunityIds \cup {"none"}, loop \in BOOLEAN :
           publish_thread_event(c, "new_thread", loop)
    \/ \E t \in ThreadIds \cup {"none"} : publish_message_event(t, "new_message")
    \/ \E c \in CommunityIds : publish_member_event(c, "member_joined")

\* the write path: CRUD handlers calling the publish helpers beside the listener's start
SpecPublish == Init /\ [][NextPublish]_vars

\* ---------------------------------------------------------------- the manager's callers
ApiCall(op, ws, user_id, key, ret, raised, pre) ==
    [NoCall EXCEPT !.n = call.n + 1, !.op = op, !.ws = ws, !.user_id = user_id,
                   !.key = key, !.ret = ret, !.raised = raised, !.pre = pre]

\* what a method returns that ends without a return statement
ReturnsNone == "None"

\* await manager.connect(websocket, user_id): websocket.accept() returns or raises, and
\* nothing else in connect looks at the handle or at the registry before writing to it
ApiConnect(ws, user_id, accepted) ==
    /\ call.n < MaxApiCalls
    /\ IF accepted
       THEN /\ SetReg(connect(Reg, ws, user_id))
            /\ sock' = [sock EXCEPT ![ws] = IF @ = "new" THEN "open" ELSE @]
            /\ call' = ApiCall("connect", ws, user_id, "None", ReturnsNone, "none",
                               ws \in DOMAIN connection_metadata)
       ELSE /\ UNCHANGED <<regvars, sock>>
            /\ call' = ApiCall("connect", ws, user_id, "None", ReturnsNone, "accept",
                               ws \in DOMAIN connection_metadata)
    /\ UNCHANGED <<inbox, bc, bcount, unreg_count, relayvars, crud_calls, route>>

\* manager.disconnect(websocket)
ApiDisconnect(ws) ==
    /\ call.n < MaxApiCalls
    /\ SetReg(disconnect(Reg, ws))
    /\ unreg_count' = CountEffects(Reg, <<ws>>, unreg_count)
    /\ call' = ApiCall("disconnect", ws, "None", "None", ReturnsNone, "none",
                       ws \in DOMAIN connection_metadata)
    /\ UNCHANGED <<sock, inbox, bc, bcount, relayvars, crud_calls, route>>

\* await manager.join_community(websocket, community_id)
ApiJoinCommunity(ws, community_id) ==
    /\ call.n < MaxApiCalls
    /\ SetReg(join_community(Reg, ws, community_id))
    /\ call' = ApiCall("join_community", ws, "None", community_id, ReturnsNone, "none",
                       InTopic(Reg, "community", community_id, ws))
    /\ UNCHANGED <<sock, inbox, bc, bcount, unreg_count, relayvars, crud_calls, route>>

\* await manager.leave_community(websocket, community_id)
ApiLeaveCommunity(ws, community_id) ==
    /\ call.n < MaxApiCalls
    /\ SetReg(leave_community(Reg, ws, community_id))
    /\ call' = ApiCall("leave_community", ws, "None", community_id, ReturnsNone, "none",
                       InTopic(Reg, "community", community_id, ws))
    /\ UNCHANGED <<sock, inbox, bc, bcount, unreg_count, relayvars, crud_calls, route>>

\* await manager.join_thread(websocket, thread_id)
ApiJoinThread(ws, thread_id) ==
    /\ call.n < MaxApiCalls
    /\ SetReg(join_thread(Reg, ws, thread_id))
    /\ call' = ApiCall("join_thread", ws, "None", thread_id, ReturnsNone, "none",
                       InTopic(Reg, "thread", thread_id, ws))
    /\ UNCHANGED <<sock, inbox, bc, bcount, unreg_count, relayvars, crud_calls, route>>

\* await manager.leave_thread(websocket, thread_id)
ApiLeaveThread(ws, thread_id) ==
    /\ call.n < MaxApiCalls
    /\ SetReg(leave_thread(Reg, ws, thread_id))
    /\ call' = ApiCall("leave_thread", ws, "None", thread_id, ReturnsNone, "none",
                       InTopic(Reg, "thread", thread_id, ws))
    /\ UNCHANGED <<sock, inbox, bc, bcount, unreg_count, relayvars, crud_calls, route>>

\* await manager.send_personal_message(user_id, message): the identity is looked up, the
\* frame is sent to its socket, a failing send unregisters the socket; no branch returns
\* a value
send_personal_message(user_id, type) ==
    /\ call.n < MaxApiCalls
    /\ LET msg == [type |-> type, eid |-> call.n + 1] IN
       IF user_id \in DOMAIN user_connections
       THEN LET ws == user_connections[user_id] IN
            /\ call' = ApiCall("send_personal_message", ws, user_id, "None", ReturnsNone,
                               "none", TRUE)
            /\ IF SendSucceeds(ws)
               THEN /\ inbox' = [inbox EXCEPT ![ws] = Append(@, msg)]
                    /\ UNCHANGED <<regvars, unreg_count>>
               ELSE /\ SetReg(disconnect(Reg, ws))
                    /\ unreg_count' = CountEffects(Reg, <<ws>>, unreg_count)
                    /\ inbox' = inbox
       ELSE /\ call' = ApiCall("send_personal_message", "none", user_id, "None",
                               ReturnsNone, "none", FALSE)
            /\ UNCHANGED <<regvars, inbox, unreg_count>>
    /\ UNCHANGED <<sock, bc, bcount, relayvars, crud_calls, route>>

NextApi ==
    \/ \E ws \in Sockets, c \in CommunityIds : ApiJoinCommunity(ws, c)
    \/ \E ws \in Sockets, c \in CommunityIds : ApiLeaveCommunity(ws, c)
    \/ \E ws \in Sockets, t \in ThreadIds : ApiJoinThread(ws, t)
    \/ \E ws \in Sockets, t \in ThreadIds : ApiLeaveThread(ws, t)
    \/ \E ws \in Sockets, u \in Users, ok \in BOOLEAN : ApiConnect(ws, u, ok)
    \/ \E ws \in Sockets : ApiDisconnect(ws)
    \/ \E u \in Users : send_personal_message(u, "notification")
    \/ \E ws \in Sockets : PeerDrop(ws)

\* the manager under any caller: its public methods, called on any handle in any order
SpecApi == Init /\ [][NextApi]_vars

\* ---------------------------------------------------------------- the read loop
\* a JSON object with the given keys ("None": the key is missing)
Obj(action, community_id, thread_id, user_id) ==
    [json |-> "object", action |-> action, community_id |-> community_id,
     thread_id |-> thread_id, user_id |-> user_id]

\* the frames the clients of the model send: the six actions, an action with its id
\* missing, an id that is a JSON list (truthy, not hashable), an unknown and a missing
\* action, JSON that is no object, and text that is no JSON
GatewayFrames ==
    {Obj("join_community", "123", "None", "None"),
     Obj("leave_community", "123", "None", "None"),
     Obj("join_thread", "None", "42", "None"),
     Obj("leave_thread", "None", "42", "None"),
     Obj("typing", "None", "42", "alice"),
     Obj("stop_typing", "None", "42", "alice"),
     Obj("typing", "None", "42", "None"),
     Obj("join_community", "None", "None", "None"),
     Obj("join_community", "list", "None", "None"),
     Obj("shout", "None", "42", "alice"),
     Obj("None", "123", "None", "None"),
     [NoFrame EXCEPT !.json = "array"],
     [NoFrame EXCEPT !.json = "invalid"]}

\* `if value:` on what message.get returned
Truthy(value) == value # "None"

\* a value usable as a dict key (`key in self.community_connections`)
Hashable(value) == value # "list"

\* datetime.utcnow().isoformat(), read while call number n is handled
utcnow(n) == <<"utcnow", n>>

typing_message_client_stamp(type, frame, n) ==
    [type |-> type, thread_id |-> frame.thread_id, user_id |-> frame.user_id,
     timestamp |-> <<"client", n>>]

\* typing_message / stop_typing_message of handle_websocket_message
typing_message(type, frame, n) ==
    [type |-> type, thread_id |-> frame.thread_id, user_id |-> frame.user_id,
     timestamp |-> utcnow(n)]

\* the error frames: main.py's two replies and handle_websocket_message's own
InvalidJsonReply == [type |-> "error", message |-> "Invalid JSON format"]

FailedReply == [type |-> "error", message |-> "Failed to process message"]

HandlerErrorReply(n) ==
    [type |-> "error", message |-> "Failed to process message", timestamp |-> utcnow(n)]

\* how handle_websocket_message(websocket, message) ends for a frame json.loads accepted:
\*   "raise"   message.get raised (the message is no dict), outside the try
\*   "error"   a manager call raised inside the try: the except branch replies
\*   "join_community" ... "stop_typing"   the manager call of that branch is made
\*   "skip"    the branch found its id missing, or no branch matched the action
Outcome(frame) ==
    IF frame.json # "object" THEN "raise"
    ELSE IF frame.action \in {"join_community", "leave_community"}
    THEN IF ~Truthy(frame.community_id) THEN "skip"
         ELSE IF ~Hashable(frame.community_id) THEN "error"
         ELSE frame.action
    ELSE IF frame.action \in {"join_thread", "leave_thread"}
    THEN IF ~Truthy(frame.thread_id) THEN "skip"
         ELSE IF ~Hashable(frame.thread_id) THEN "error"
         ELSE frame.action
    ELSE IF frame.action \in {"typing", "stop_typing"}
    THEN IF ~(Truthy(frame.thread_id) /\ Truthy(frame.user_id)) THEN "skip"
         ELSE IF ~Hashable(frame.thread_id) THEN "error"
         ELSE frame.action
    ELSE "skip"

AfterControlTypingJoins(r, ws, frame) ==
    LET o == Outcome(frame) IN
    IF o = "join_community" THEN join_community(r, ws, frame.community_id)
    ELSE IF o = "leave_community" THEN leave_community(r, ws, frame.community_id)
    ELSE IF o \in {"join_thread", "typing", "stop_typing"}
    THEN join_thread(r, ws, frame.thread_id)
    ELSE IF o = "leave_thread" THEN leave_thread(r, ws, frame.thread_id)
    ELSE r

\* the registry after the branch handle_websocket_message took: the join / leave
\* branches make their manager call, the other branches call nothing that writes to it
\* before the broadcast's for loop
AfterControl(r, ws, frame) ==
    LET o == Outcome(frame) IN
    IF o = "join_community" THEN join_community(r, ws, frame.community_id)
    ELSE IF o = "leave_community" THEN leave_community(r, ws, frame.community_id)
    ELSE IF o = "join_thread" THEN join_thread(r, ws, frame.thread_id)
    ELSE IF o = "leave_thread" THEN leave_thread(r, ws, frame.thread_id)
    ELSE r

\* the reply the frame draws on its own connection, NoMsg when it draws none
ReplyTo(frame, n) ==
    IF frame.json = "invalid" THEN InvalidJsonReply
    ELSE IF Outcome(frame) = "raise" THEN FailedReply
    ELSE IF Outcome(frame) = "error" THEN HandlerErrorReply(n)
    ELSE NoMsg

\* the route's handler is inside a broadcast_to_thread it called for a typing frame
InOwnBroadcast(ws) == bc.pc = "send" /\ bc.caller = ws

FrameCall(ws, frame) ==
    [NoCall EXCEPT !.n = call.n + 1, !.op = "frame", !.ws = ws, !.frame = frame]

\* one turn of the read loop of websocket_route_old: data = ws.receive(), json.loads,
\* asyncio.run(handle_websocket_message(ws, message)) up to the broadcast's for loop, and
\* the except branches. A reply that cannot be sent raises out of the loop: the route
\* logs and runs its finally
ClientFrame(ws, frame) ==
    /\ HandlerRunning(ws)
    /\ ~InOwnBroadcast(ws)
    /\ call.n < MaxFrames
    /\ call' = FrameCall(ws, frame)
    /\ LET reply == ReplyTo(frame, call.n + 1)
           o == Outcome(frame)
       IN IF reply # NoMsg
          THEN IF SendSucceeds(ws)
               THEN /\ inbox' = [inbox EXCEPT ![ws] = Append(@, reply)]
                    /\ UNCHANGED <<regvars, sock, bc, unreg_count>>
               ELSE /\ SetReg(disconnect(Reg, ws))
                    /\ unreg_count' = CountEffects(Reg, <<ws>>, unreg_count)
                    /\ sock' = [sock EXCEPT ![ws] = "closed"]
                    /\ UNCHANGED <<inbox, bc>>
          ELSE IF o \in {"typing", "stop_typing"}
          THEN /\ bc.pc = "idle"
               /\ bc' = broadcast_begin(Reg, "thread", frame.thread_id,
                                        typing_message(o, frame, call.n + 1), ws)
               /\ SetReg(AfterControl(Reg, ws, frame))
               /\ UNCHANGED <<sock, inbox, unreg_count>>
          ELSE /\ SetReg(AfterControl(Reg, ws, frame))
               /\ UNCHANGED <<sock, inbox, bc, unreg_count>>
    /\ UNCHANGED <<bcount, relayvars, crud_calls, route>>

\* the read loop ends while the handler is not inside a broadcast of its own
GatewayClose(ws) == ~InOwnBroadcast(ws) /\ RouteClose(ws)

NextGateway ==
    \/ \E ws \in Sockets, u \in Users, ok \in BOOLEAN : RouteOpen(ws, u, ok)
    \/ \E ws \in Sockets : GatewayClose(ws)
    \/ \E ws \in Sockets : PeerDrop(ws)
    \/ \E ws \in Sockets, f \in GatewayFrames : ClientFrame(ws, f)
    \/ \E ws \in Sockets : BroadcastSend(ws)
    \/ BroadcastCleanup

\* the gateway's connections: routes that register, read control frames and unregister
SpecGateway == Init /\ [][NextGateway]_vars

\* ---------------------------------------------------------------- the connection route
\* the methods class ConnectionManager defines
ManagerMethods ==
    {"connect", "disconnect", "join_community", "leave_community", "join_thread",
     "leave_thread", "send_personal_message", "broadcast_to_community",
     "broadcast_to_thread", "broadcast_to_all", "get_connection_count",
     "get_community_connection_count", "get_thread_connection_count"}

\* manager.<name>(...) raises AttributeError: the manager has no such attribute
AttributeError(name) == name \notin ManagerMethods

\* websocket_route_old(ws, token), entered by flask-sock with the handshake done.
\* try: get_current_user(token) returns the user or raises; manager.sync_connect(ws,
\* user_id) is the registration; the read loop follows. except Exception: log. finally:
\* manager.sync_disconnect(ws). The registration raises AttributeError before anything is
\* registered and the read loop is never entered; the finally's call raises it again, out
\* of the route, and flask-sock closes the socket
websocket_route_old(ws, token_ok) ==
    /\ route[ws].pc = "idle"
    /\ sock[ws] = "new"
    /\ AttributeError("sync_connect")
    /\ route' = [route EXCEPT ![ws] =
           [pc |-> "finished",
            authenticated |-> token_ok,
            registered |-> 0,
            unregistered |-> IF AttributeError("sync_disconnect") THEN 0 ELSE 1,
            raised |-> IF AttributeError("sync_disconnect") THEN "sync_disconnect"
                       ELSE "none"]]
    /\ sock' = [sock EXCEPT ![ws] = "closed"]
    /\ UNCHANGED <<regvars, inbox, bc, bcount, unreg_count, relayvars, crud_calls, call>>

NextMain ==
    \/ \E ws \in Sockets, ok \in BOOLEAN : websocket_route_old(ws, ok)
    \/ \E ok \in BOOLEAN : ListenerConnect(ok)
    \/ \E ok \in BOOLEAN : ListenerSubscribe(ok)
    \/ ListenerStep
    \/ TransportError
    \/ ListenerCancel
    \/ \E ch \in Channels : RelayPublish(ch, TypeOn(ch))

\* main.py as it is started: the relay listener thread and the connection routes
SpecMain == Init /\ [][NextMain]_vars

\* the frames of well-behaved clients around one thread
ThreadFrames ==
    {Obj("join_thread", "None", "42", "None"),
     Obj("leave_thread", "None", "42", "None"),
     Obj("join_community", "123", "None", "None"),
     Obj("typing", "None", "42", "alice"),
     Obj("stop_typing", "None", "42", "alice")}

NextTyping ==
    \/ \E ws \in Sockets, u \in Users, ok \in BOOLEAN : RouteOpen(ws, u, ok)
    \/ \E ws \in Sockets : GatewayClose(ws)
    \/ \E ws \in Sockets : PeerDrop(ws)
    \/ \E ws \in Sockets, f \in ThreadFrames : ClientFrame(ws, f)
    \/ \E ws \in Sockets : BroadcastSend(ws)
    \/ BroadcastCleanup

\* typing indicators: the gateway's connections with clients that send valid frames only
SpecTyping == Init /\ [][NextTyping]_vars

\* ---------------------------------------------------------------- the relay's handler
\* the channels a delivery can carry: the ones the CRUD side publishes on and the literal
\* name of the global subscription
DeliveredChannels == Channels \cup {<<"global", "*">>}

\* redis_message_handler(channel, message_data), invoked by the listen loop with one
\* delivered event: the broadcast the channel selects is entered (the loop awaits the
\* handler, so no second delivery starts while a broadcast runs); a channel of no branch
\* sends nothing
redis_message_handler(channel, type) ==
    /\ bc.pc = "idle"
    /\ Len(handled) < MaxDeliveries
    /\ LET msg == [type |-> type, eid |-> Len(handled) + 1]
           target == HandlerTarget(channel)
       IN /\ handled' = Append(handled, [channel |-> channel, msg |-> msg])
          /\ bc' = IF target[1] = "none" THEN IdleBc
                   ELSE broadcast_begin(Reg, target[1], target[2], msg, "handler")
    /\ UNCHANGED <<regvars, sock, inbox, bcount, unreg_count, redis_client, pubsub,
                   subscribers, listen_pc, published, crud_calls, gwvars>>

NextHandler ==
    \/ \E ws \in Sockets, u \in Users : RouteOpen(ws, u, TRUE)
    \/ \E ws \in Sockets, c \in CommunityIds : ClientJoinCommunity(ws, c)
    \/ \E ws \in Sockets, t \in ThreadIds : ClientJoinThread(ws, t)
    \/ \E ws \in Sockets : RouteClose(ws)
    \/ \E ch \in DeliveredChannels : redis_message_handler(ch, TypeOn(ch))
    \/ \E ws \in Sockets : BroadcastSend(ws)
    \/ BroadcastCleanup

\* the relay's handler fed with delivered events, over a registry that routes fill
SpecHandler == Init /\ [][NextHandler]_vars

\* ---------------------------------------------------------------- threads
\* ConnectionManager.disconnect holds no lock and main.py runs the relay listener, and so
\* its broadcasts, in a thread of its own (start_redis_listener_in_background): the
\* statements of a disconnect running in a connection handler's thread interleave with
\* the other thread. The position of a handler inside disconnect is route[ws].pc, and
\* the metadata it read on entry is route[ws].metadata.
DisconnectStages == <<"communities", "threads", "identity", "metadata">>

InDisconnect(ws) == \E i \in DOMAIN DisconnectStages : route[ws].pc = DisconnectStages[i]

\* the registry after one stage of disconnect(ws): the loop over metadata['communities'],
\* the loop over metadata['threads'], the identity index, the metadata entry
disconnect_stage(r, ws, m, stage) ==
    IF stage = "communities" THEN [r EXCEPT !.cc = TopicDiscardAll(r.cc, m.communities, ws)]
    ELSE IF stage = "threads" THEN [r EXCEPT !.tc = TopicDiscardAll(r.tc, m.threads, ws)]
    ELSE IF stage = "identity"
         THEN [r EXCEPT !.uc = IF m.user_id \in DOMAIN r.uc THEN DictDel(r.uc, m.user_id)
                               ELSE r.uc]
    ELSE [r EXCEPT !.meta = DictDel(r.meta, ws)]

NextStage(stage) ==
    IF stage = "communities" THEN "threads"
    ELSE IF stage = "threads" THEN "identity"
    ELSE IF stage = "identity" THEN "metadata"
    ELSE "finished"

\* the handler's read loop has ended and its thread enters disconnect(ws):
\* if websocket in self.connection_metadata: metadata = ...; user_id = ...
ThreadDisconnectEnter(ws) ==
    /\ HandlerRunning(ws)
    /\ route[ws].pc = "idle"
    /\ sock' = [sock EXCEPT ![ws] = "closed"]
    /\ route' = [route EXCEPT ![ws] =
           IF ws \in DOMAIN connection_metadata
           THEN [pc |-> "communities", authenticated |-> TRUE, registered |-> 1,
                 unregistered |-> 0, raised |-> "none",
                 metadata |-> connection_metadata[ws]]
           ELSE [NoRoute EXCEPT !.pc = "finished", !.authenticated = TRUE,
                                !.registered = 1]]
    /\ UNCHANGED <<regvars, inbox, bc, bcount, unreg_count, relayvars, crud_calls, call>>

\* the handler's thread runs the next stage of disconnect(ws); the del of the metadata
\* entry raises KeyError when another thread's cleanup has removed the entry meanwhile
ThreadDisconnectStep(ws) ==
    /\ InDisconnect(ws)
    /\ LET stage == route[ws].pc
           gone == stage = "metadata" /\ ws \notin DOMAIN connection_metadata
       IN /\ SetReg(IF gone THEN Reg
                    ELSE disconnect_stage(Reg, ws, route[ws].metadata, stage))
          /\ route' = [route EXCEPT ![ws].pc = NextStage(stage),
                                    ![ws].unregistered = IF stage = "metadata" /\ ~gone
                                                         THEN 1 ELSE @,
                                    ![ws].raised = IF gone THEN "KeyError" ELSE @]
          /\ unreg_count' = IF stage = "metadata" /\ ~gone
                            THEN [unreg_count EXCEPT ![ws] = @ + 1] ELSE unreg_count
    /\ UNCHANGED <<sock, inbox, bc, bcount, relayvars, crud_calls, call>>

NextThreads ==
    \/ \E ws \in Sockets, u \in Users : RouteOpen(ws, u, TRUE)
    \/ \E ws \in Sockets, c \in CommunityIds : ClientJoinCommunity(ws, c)
    \/ \E ws \in Sockets, t \in ThreadIds : ClientJoinThread(ws, t)
    \/ \E ws \in Sockets : ThreadDisconnectEnter(ws)
    \/ \E ws \in Sockets : ThreadDisconnectStep(ws)
    \/ \E tp \in Topics : BroadcastCall(tp[1], tp[2], "new_message")
    \/ \E ws \in Sockets : BroadcastSend(ws)
    \/ BroadcastCleanup

\* handler threads unregistering while another thread broadcasts
SpecThreads == Init /\ [][NextThreads]_vars

\* ---------------------------------------------------------------- shutdown
\* the server is serving until asyncio.run(serve(app, config)) has returned
Serving == call.op # "serve_returned"

\* the gateway shuts down: serve returns and the module ends. main.py registers no
\* shutdown hook and has no statement after serve: no connection is closed, no
\* disconnect is called, and the listener, a daemon thread, ends with the process
Shutdown ==
    /\ Serving
    /\ call' = [NoCall EXCEPT !.n = call.n + 1, !.op = "serve_returned"]
    /\ UNCHANGED <<regvars, sock, inbox, bc, bcount, unreg_count, relayvars, crud_calls,
                   route>>

NextShutdown ==
    \/ Serving /\ \E ws \in Sockets, u \in Users, ok \in BOOLEAN : RouteOpen(ws, u, ok)
    \/ Serving /\ \E ws \in Sockets : RouteClose(ws)
    \/ Serving /\ \E ws \in Sockets : PeerDrop(ws)
    \/ Serving /\ \E ws \in Sockets, c \in CommunityIds : ClientJoinCommunity(ws, c)
    \/ Serving /\ \E ws \in Sockets, t \in ThreadIds : ClientJoinThread(ws, t)
    \/ Shutdown

\* connections come and go until the server is shut down
SpecShutdown == Init /\ [][NextShutdown]_vars

\* ---------------------------------------------------------------- the broker's callers
\* RedisBroker's methods called in any order, on a broker that may not be connected, with
\* callbacks that may raise. The registry is empty here: redis_message_handler broadcasts
\* to nobody and returns at once.
BrokerChannels == {get_thread_channel(t) : t \in ThreadIds} \cup {get_global_channel}

\* the callbacks a caller subscribes: main.py's handler, which catches what its body
\* raises, and an arbitrary coroutine, which may raise
Callbacks == {"redis_message_handler", "callback"}

subscribe_records_first(subs, ps, channel, callback, ok) ==
    IF ps.init /\ ok
    THEN [subs |-> DictSet(subs, channel, callback), ps |-> transport_subscribe(ps, channel),
          raised |-> "none"]
    ELSE [subs |-> DictSet(subs, channel, callback), ps |-> ps,
          raised |-> IF ps.init THEN "transport" ELSE "RuntimeError"]

\* RedisBroker.subscribe: raises without a pubsub; pubsub.subscribe may raise, which is
\* logged and re-raised before the callback is recorded
subscribe(subs, ps, channel, callback, ok) ==
    IF ~ps.init THEN [subs |-> subs, ps |-> ps, raised |-> "RuntimeError"]
    ELSE IF ~ok THEN [subs |-> subs, ps |-> ps, raised |-> "transport"]
    ELSE [subs |-> DictSet(subs, channel, callback), ps |-> transport_subscribe(ps, channel),
          raised |-> "none"]

\* pubsub.unsubscribe(channel): the subscription ends, and the transport confirms
transport_unsubscribe(ps, channel) ==
    [ps EXCEPT !.channels = @ \ {channel},
               !.queue = Append(@, [type |-> "unsubscribe", channel |-> channel,
                                    data |-> NoMsg])]

\* RedisBroker.unsubscribe: returns without a pubsub; an error of pubsub.unsubscribe is
\* logged and swallowed before the callback is deleted
unsubscribe(subs, ps, channel, ok) ==
    IF ~ps.init \/ ~ok THEN [subs |-> subs, ps |-> ps, raised |-> "none"]
    ELSE [subs |-> DictDel(subs, channel), ps |-> transport_unsubscribe(ps, channel),
          raised |-> "none"]

\* await redis_broker.connect()
BrokerConnect(ok) ==
    /\ call.n < MaxApiCalls
    /\ ~redis_client
    /\ redis_client' = ok
    /\ pubsub' = IF ok THEN [NoPubsub EXCEPT !.init = TRUE] ELSE pubsub
    /\ call' = ApiCall("connect", "none", "None", "None", ReturnsNone,
                       IF ok THEN "none" ELSE "connect", FALSE)
    /\ UNCHANGED <<regvars, sock, inbox, bc, bcount, unreg_count, subscribers, listen_pc,
                   published, handled, crud_calls, route>>

\* await redis_broker.subscribe(channel, callback)
BrokerSubscribe(channel, callback, ok) ==
    /\ call.n < MaxApiCalls
    /\ LET res == subscribe(subscribers, pubsub, channel, callback, ok) IN
       /\ subscribers' = res.subs
       /\ pubsub' = res.ps
       /\ call' = ApiCall("subscribe", "none", "None", channel[1], ReturnsNone, res.raised,
                          pubsub.init)
    /\ UNCHANGED <<regvars, sock, inbox, bc, bcount, unreg_count, redis_client, listen_pc,
                   published, handled, crud_calls, route>>

\* await redis_broker.unsubscribe(channel)
BrokerUnsubscribe(channel, ok) ==
    /\ call.n < MaxApiCalls
    /\ LET res == unsubscribe(subscribers, pubsub, channel, ok) IN
       /\ subscribers' = res.subs
       /\ pubsub' = res.ps
       /\ call' = ApiCall("unsubscribe", "none", "None", channel[1], ReturnsNone, res.raised,
                          pubsub.init)
    /\ UNCHANGED <<regvars, sock, inbox, bc, bcount, unreg_count, redis_client, listen_pc,
                   published, handled, crud_calls, route>>

\* await redis_broker.publish(channel, message): raises without a client, and nothing is
\* handed to the transport
BrokerPublish(channel, type) ==
    IF redis_client
    THEN RelayPublish(channel, type)
    ELSE /\ call.n < MaxApiCalls
         /\ call' = ApiCall("publish", "none", "None", channel[1], ReturnsNone,
                            "RuntimeError", FALSE)
         /\ UNCHANGED <<regvars, sock, inbox, bc, bcount, unreg_count, relayvars, crud_calls,
                        route>>

\* await redis_broker.listen() is entered: raises without a pubsub, else the loop starts
BrokerListen ==
    /\ call.n < MaxApiCalls
    /\ listen_pc = "start"
    /\ listen_pc' = IF pubsub.init THEN "listening" ELSE listen_pc
    /\ call' = ApiCall("listen", "none", "None", "None", ReturnsNone,
                       IF pubsub.init THEN "none" ELSE "RuntimeError", pubsub.init)
    /\ UNCHANGED <<regvars, sock, inbox, bc, bcount, unreg_count, redis_client, pubsub,
                   subscribers, published, handled, crud_calls, route>>

OnCallbackErrorPropagate == "returned"

\* try: await callback(channel, data) / except Exception as e: logger.error(...): the
\* position of listen after a callback has raised
OnCallbackError == "listening"

\* RedisBroker.listen, one message of the async for: a message of type 'message' on a
\* channel of the subscriber table has its callback awaited, which returns or raises
ListenDispatch(raises) ==
    /\ listen_pc = "listening"
    /\ pubsub.queue # <<>>
    /\ LET message == Head(pubsub.queue) IN
       /\ pubsub' = [pubsub EXCEPT !.queue = Tail(@)]
       /\ IF Dispatches(subscribers, message)
          THEN /\ raises => subscribers[message.channel] = "callback"
               /\ handled' = Append(handled, [channel |-> message.channel,
                                              msg |-> message.data, raised |-> raises])
               /\ listen_pc' = IF raises THEN OnCallbackError ELSE "listening"
          ELSE /\ ~raises
               /\ UNCHANGED <<handled, listen_pc>>
    /\ UNCHANGED <<regvars, sock, inbox, bc, bcount, unreg_count, redis_client, subscribers,
                   published, crud_calls, gwvars>>

NextBroker ==
    \/ \E ok \in BOOLEAN : BrokerConnect(ok)
    \/ \E ch \in BrokerChannels, cb \in Callbacks, ok \in BOOLEAN : BrokerSubscribe(ch, cb, ok)
    \/ \E ch \in BrokerChannels, ok \in BOOLEAN : BrokerUnsubscribe(ch, ok)
    \/ \E ch \in BrokerChannels : BrokerPublish(ch, TypeOn(ch))
    \/ BrokerListen
    \/ \E raises \in BOOLEAN : ListenDispatch(raises)
    \/ TransportError
    \/ ListenerCancel

\* the relay on its own, driven through its public methods
SpecBroker == Init /\ [][NextBroker]_vars

\* ---------------------------------------------------------------- properties
InIndex(index, key, ws) == ws \in DictGet(index, key, {})

\* C1: whatever join_community / leave_community / join_thread / leave_thread calls a
\* registered connection has made, it is in community_connections[c] exactly when c is in
\* its own 'communities' set, and in thread_connections[t] exactly when t is in 'threads'.
C1_IndexMatchesMembership ==
    \A ws \in DOMAIN connection_metadata :
        /\ \A c \in CommunityIds :
              InIndex(community_connections, c, ws)
                  <=> c \in connection_metadata[ws].communities
        /\ \A t \in ThreadIds :
              InIndex(thread_connections, t, ws)
                  <=> t \in connection_metadata[ws].threads

C1_Witness ==
    \E ws \in DOMAIN connection_metadata :
        /\ connection_metadata[ws].communities = {"123"}
        /\ connection_metadata[ws].threads = {"42"}
        /\ InIndex(community_connections, "123", ws)
        /\ ~InIndex(community_connections, "*", ws)
        /\ InIndex(thread_connections, "42", ws)

FramesOf(ws, msg) == {i \in DOMAIN inbox[ws] : inbox[ws][i] = msg}

\* C2: a broadcast sends to the connections that were members of the topic when the call
\* started and to nobody else: every send goes to a member at call time, a connection that
\* joined later holds no frame of it, and the members at call time not yet sent to are
\* exactly the ones the loop still has to visit.
C2_RecipientsFixedAtCall ==
    bc.pc = "send" =>
        /\ Visited(bc) \subseteq bc.at_call
        /\ Pending(bc, Reg) = bc.at_call \ Visited(bc)
        /\ \A ws \in Sockets : FramesOf(ws, bc.msg) # {} => ws \in bc.at_call

C2_Witness ==
    /\ bc.pc = "send"
    /\ bc.kind # "all"
    /\ Pending(bc, Reg) = {}
    /\ Sent(bc) # {}
    /\ MembersNow(Reg, bc.kind, bc.key) \ bc.at_call # {}

FailureStep ==
    /\ bc.pc = "send"
    /\ Len(bc'.visited) = Len(bc.visited) + 1
    /\ ~bc'.visited[Len(bc'.visited)].ok

ReturnStep == bc.pc = "send" /\ bc'.pc = "idle"

\* C3: a send that fails does not abort the broadcast: after it the loop is still running
\* with every other unvisited connection of the snapshot left to visit, and the broadcast
\* returns only when every connection of the snapshot has had its send attempted.
C3_SendFailureDoesNotAbort ==
    [][/\ FailureStep =>
             /\ bc'.pc = "send"
             /\ Pending(bc', Reg') = Pending(bc, Reg) \ {bc'.visited[Len(bc'.visited)].ws}
       /\ ReturnStep => Visited(bc) = bc.snapshot]_vars

C3_Witness ==
    /\ bc.pc = "send"
    /\ Len(bc.visited) = 2
    /\ ~bc.visited[1].ok
    /\ bc.visited[2].ok

Absent(r, ws) ==
    /\ ws \notin DOMAIN r.meta
    /\ \A k \in DOMAIN r.cc : ws \notin r.cc[k]
    /\ \A k \in DOMAIN r.tc : ws \notin r.tc[k]
    /\ \A u \in DOMAIN r.uc : r.uc[u] # ws

IdentitiesOf(r, ws) == {u \in DOMAIN r.uc : r.uc[u] = ws}

SameRegistration(r1, r2, ws) ==
    /\ (ws \in DOMAIN r1.meta) <=> (ws \in DOMAIN r2.meta)
    /\ ws \in DOMAIN r1.meta /\ ws \in DOMAIN r2.meta => r1.meta[ws] = r2.meta[ws]
    /\ {k \in DOMAIN r1.cc : ws \in r1.cc[k]} = {k \in DOMAIN r2.cc : ws \in r2.cc[k]}
    /\ {k \in DOMAIN r1.tc : ws \in r1.tc[k]} = {k \in DOMAIN r2.tc : ws \in r2.tc[k]}
    /\ IdentitiesOf(r1, ws) = IdentitiesOf(r2, ws)

\* C4: when a broadcast returns, exactly the snapshot connections whose send failed have
\* been unregistered (absent from every topic set, the identity index and the metadata
\* map), no send of the fan-out pass changes the registry, and the connections whose send
\* succeeded keep their registration, identity entry and memberships.
C4_ReturnUnregistersExactlyTheFailed ==
    [][/\ ReturnStep =>
             /\ \A ws \in Failed(bc) : Absent(Reg', ws)
             /\ \A ws \in Sent(bc) : SameRegistration(Reg, Reg', ws)
       /\ (bc.pc = "send" /\ bc'.pc = "send" /\ bc'.visited # bc.visited) => Reg' = Reg]_vars

\* C5: with connections unregistered while a broadcast is in progress, the broadcast never
\* raises, visits no connection twice and leaves at most one frame of its event with each
\* connection, and no connection is unregistered with effect more than once.
C5_UnregisterDuringBroadcastIsSafe ==
    /\ bc.pc \in {"idle", "send"}
    /\ Cardinality(Visited(bc)) = Len(bc.visited)
    /\ bc.pc = "send" => \A ws \in Sockets : Cardinality(FramesOf(ws, bc.msg)) <= 1
    /\ \A ws \in Sockets : unreg_count[ws] <= 1

C5_Witness ==
    /\ bc.pc = "send"
    /\ Pending(bc, Reg) = {}
    /\ Sent(bc) # {}
    /\ \E ws \in Failed(bc) :
          /\ sock[ws] = "closed"
          /\ ws \notin DOMAIN connection_metadata
          /\ unreg_count[ws] = 1

\* the listen loop has consumed everything the transport queued and waits for more
Quiescent == listen_pc = "listening" /\ pubsub.queue = <<>> /\ bc.pc = "idle"

TopicChannel(channel) == startswith(channel, "community") \/ startswith(channel, "thread")

HandledAt(channel, msg) ==
    {p \in DOMAIN handled : handled[p].channel = channel /\ handled[p].msg = msg}

\* C6: two events published on one topic while the listener listens, E1 before E2: the
\* listen loop invokes the handler for E1 and then for E2, and every member of the topic
\* holds E1's frame before E2's.
C6_PublishOrderIsDeliveryOrder ==
    Quiescent =>
        \A i, j \in DOMAIN published :
            (/\ i < j
             /\ published[i].live /\ published[j].live
             /\ published[i].channel = published[j].channel
             /\ TopicChannel(published[i].channel)) =>
                LET ch == published[i].channel
                    target == HandlerTarget(ch)
                IN /\ \E p \in HandledAt(ch, published[i].msg) :
                      \E q \in HandledAt(ch, published[j].msg) : p < q
                   /\ \A ws \in MembersNow(Reg, target[1], target[2]) :
                         \E p \in FramesOf(ws, published[i].msg) :
                            \E q \in FramesOf(ws, published[j].msg) : p < q

\* C7: a connection that joined community c before an event was published on
\* 'community:<c>', with the listener subscribed and listening, holds exactly one frame of
\* that event, carrying its type.
C7_JoinedConnectionReceivesExactlyOne ==
    Quiescent =>
        \A i \in DOMAIN published :
            (published[i].live /\ startswith(published[i].channel, "community")) =>
                \A ws \in MembersNow(Reg, "community", split_id(published[i].channel)) :
                    Cardinality({k \in DOMAIN inbox[ws] :
                        /\ inbox[ws][k].eid = published[i].msg.eid
                        /\ inbox[ws][k].type = published[i].msg.type}) = 1

\* pattern 'prefix:*' covers every channel that begins with 'prefix:'
PrefixMatches(pattern, channel) == pattern[2] = "*" /\ channel[1] = pattern[1]

\* C8: the handler subscribed under a prefix-wildcard pattern is invoked exactly once for
\* each event published on a channel beginning with the prefix, and never for an event on
\* a channel no subscribed pattern covers.
C8_PatternHandlerInvokedOncePerMatch ==
    Quiescent =>
        \A i \in DOMAIN published :
            published[i].live =>
                Cardinality(HandledAt(published[i].channel, published[i].msg)) =
                    IF \E pat \in DOMAIN subscribers : PrefixMatches(pat, published[i].channel)
                    THEN 1 ELSE 0

\* C9: the listen loop ends only on cancellation: from listening it goes on listening,
\* runs a callback, or is cancelled; a transport error does not end it.
C9_ListenSurvivesTransportError ==
    [][listen_pc = "listening" => listen_pc' \in {"listening", "callback", "cancelled"}]_vars

ExpectedChannel(rec) ==
    IF rec.helper = "publish_message_event" THEN get_thread_channel(rec.key)
    ELSE get_community_channel(rec.key)

\* C10: every call of a publish helper that has a routing key, made with the broker
\* connected and from plain synchronous code, hands exactly one message to the transport,
\* on the channel of that key, and returns without raising.
C10_HelperPublishesExactlyOnce ==
    \A i \in DOMAIN crud_calls :
        (/\ crud_calls[i].key # "none"
         /\ crud_calls[i].connected
         /\ ~crud_calls[i].in_loop) =>
            /\ crud_calls[i].pubs = 1
            /\ crud_calls[i].channel = ExpectedChannel(crud_calls[i])
            /\ ~crud_calls[i].raised

CallStep(op) == call'.n = call.n + 1 /\ call'.op = op

Registered(r, ws) == ws \in DOMAIN r.meta

\* C11: disconnect is idempotent and complete: a call for a registered connection leaves
\* it absent from every community set, every thread set, the identity index and the
\* metadata map; a call for a connection that is not registered (never was, or was
\* already unregistered) leaves the whole registry unchanged; no call raises.
C11_DisconnectCompleteAndIdempotent ==
    [][CallStep("disconnect") =>
          /\ call'.raised = "none"
          /\ IF Registered(Reg, call'.ws) THEN Absent(Reg', call'.ws) ELSE Reg' = Reg]_vars

\* the membership set of a registered connection for the kind of topic
MembershipSet(r, kind, ws) ==
    IF kind = "community" THEN r.meta[ws].communities ELSE r.meta[ws].threads

\* the connection is in the topic: in the index entry, and in its own membership set
AlreadyIn(r, kind, key, ws) ==
    /\ InTopic(r, kind, key, ws)
    /\ Registered(r, ws) => key \in MembershipSet(r, kind, ws)

NotIn(r, kind, key, ws) ==
    /\ ~InTopic(r, kind, key, ws)
    /\ Registered(r, ws) => key \notin MembershipSet(r, kind, ws)

\* C12: join and leave are idempotent: a join of a topic the connection is already in, and
\* a leave of a topic it is not in (the key may have no entry at all), leave every index
\* and every membership set as they were.
C12_JoinLeaveIdempotent ==
    [][/\ (CallStep("join_community") /\ AlreadyIn(Reg, "community", call'.key, call'.ws))
              => Reg' = Reg
       /\ (CallStep("join_thread") /\ AlreadyIn(Reg, "thread", call'.key, call'.ws))
              => Reg' = Reg
       /\ (CallStep("leave_community") /\ NotIn(Reg, "community", call'.key, call'.ws))
              => Reg' = Reg
       /\ (CallStep("leave_thread") /\ NotIn(Reg, "thread", call'.key, call'.ws))
              => Reg' = Reg]_vars

C12_Witness ==
    /\ call.op = "leave_community"
    /\ ~call.pre
    /\ call.key \in DOMAIN community_connections
    /\ call.ws \notin community_connections[call.key]

\* C13: connect on a handle that is already registered raises and leaves the handle's
\* tracking state as it was; connect on a handle that is not registered raises nothing of
\* its own (only a failing handshake ends it).
C13_DuplicateConnectFails ==
    [][CallStep("connect") =>
          IF Registered(Reg, call'.ws)
          THEN call'.raised # "none" /\ Reg' = Reg
          ELSE call'.raised \in {"none", "accept"}]_vars

\* C14: send_personal_message returns False and sends nothing when the identity has no
\* entry in user_connections, and returns True with the frame sent to the identity's
\* connection when it has one.
C14_SendPersonalReportsDelivery ==
    [][CallStep("send_personal_message") =>
          IF call'.user_id \in DOMAIN user_connections
          THEN /\ call'.ret = "True"
               /\ inbox'[call'.ws] = Append(inbox[call'.ws],
                                            [type |-> "notification", eid |-> call'.n])
          ELSE /\ call'.ret = "False"
               /\ inbox' = inbox]_vars

IntResult(n) == [kind |-> "int", value |-> n]

\* C15: a topic broadcast returns the number of snapshot connections its send succeeded
\* for, and 0 when the topic has no entry.
C15_BroadcastReturnsDeliveredCount ==
    [][/\ (ReturnStep /\ bc.kind # "all")
              => broadcast_return(bc) = IntResult(Cardinality(Sent(bc)))
       /\ (bc.pc = "idle" /\ bcount' = bcount + 1 /\ bc'.pc = "idle")
              => broadcast_return(bc') = IntResult(0)]_vars

FrameStep == call'.n = call.n + 1 /\ call'.op = "frame"

RecognizedActions ==
    {"join_community", "leave_community", "join_thread", "leave_thread", "typing",
     "stop_typing"}

Malformed(frame) == frame.json # "object" \/ frame.action \notin RecognizedActions

\* C16: a frame that is no valid JSON, or valid JSON without a recognized 'action', read
\* from a connection whose peer is there, draws one 'error'-typed frame on that connection,
\* changes nothing in the registry and leaves the connection open.
C16_MalformedFrameDrawsError ==
    [][(FrameStep /\ Malformed(call'.frame) /\ sock[call'.ws] = "open") =>
          LET ws == call'.ws IN
          /\ Len(inbox'[ws]) = Len(inbox[ws]) + 1
          /\ inbox'[ws][Len(inbox'[ws])].type = "error"
          /\ Reg' = Reg
          /\ sock'[ws] = "open"]_vars

IsTyping(frame) == Outcome(frame) \in {"typing", "stop_typing"}

\* a broadcast_to_thread called for a typing frame is in its for loop
TypingBroadcast == bc.pc = "send" /\ bc.caller \in Sockets

\* C17: a 'typing' / 'stop_typing' frame with thread_id and user_id starts a broadcast of
\* one message of the frame's type, thread_id and user_id with the server's timestamp to
\* the thread's members; when it returns, every member other than the sender whose peer is
\* there holds exactly one frame of it, and no connection outside the thread holds any.
C17_TypingReachesThreadMembers ==
    [][/\ (FrameStep /\ IsTyping(call'.frame)
               /\ call'.frame.thread_id \in DOMAIN thread_connections) =>
              /\ bc'.pc = "send"
              /\ bc'.msg = [type |-> call'.frame.action,
                            thread_id |-> call'.frame.thread_id,
                            user_id |-> call'.frame.user_id,
                            timestamp |-> utcnow(call'.n)]
              /\ bc'.at_call = thread_connections[call'.frame.thread_id]
       /\ (TypingBroadcast /\ ReturnStep) =>
              \A ws \in Sockets \ {bc.caller} :
                  /\ Cardinality(FramesOf(ws, bc.msg)) <= 1
                  /\ (ws \in bc.at_call /\ sock[ws] = "open") => FramesOf(ws, bc.msg) # {}
                  /\ ws \notin bc.at_call => FramesOf(ws, bc.msg) = {}]_vars

C17_Witness ==
    /\ TypingBroadcast
    /\ Pending(bc, Reg) = {}
    /\ bc.msg.type = "typing"
    /\ bc.at_call = Sockets
    /\ \E ws \in Sockets \ {bc.caller} : sock[ws] = "open" /\ FramesOf(ws, bc.msg) # {}

\* C18: the connection that sent a 'typing' / 'stop_typing' frame holds no frame of the
\* broadcast its own frame started, member of the thread or not.
C18_NoSelfEcho ==
    TypingBroadcast => FramesOf(bc.caller, bc.msg) = {}

\* a step of the handling of a typing frame: the read loop's turn for it, and every step
\* of the broadcast it called
TypingStep ==
    \/ FrameStep /\ IsTyping(call'.frame)
    \/ TypingBroadcast /\ bc' # bc

TopicsOf(r, ws) ==
    [cc |-> {k \in DOMAIN r.cc : ws \in r.cc[k]},
     tc |-> {k \in DOMAIN r.tc : ws \in r.tc[k]},
     meta |-> IF ws \in DOMAIN r.meta
              THEN <<r.meta[ws].communities, r.meta[ws].threads>> ELSE <<{}, {}>>]

\* C19 as claimed: the handling of a 'typing' / 'stop_typing' frame leaves the relay (its
\* client, subscriptions, listener, published and handled events) and every topic
\* membership as they were.
C19_TypingChangesNoMembership ==
    [][TypingStep =>
          /\ relayvars' = relayvars
          /\ \A ws \in Sockets : TopicsOf(Reg', ws) = TopicsOf(Reg, ws)]_vars

\* C19, amended: the handling of a 'typing' / 'stop_typing' frame leaves the relay as it
\* was, and changes the topic membership of no connection except the thread members its
\* broadcast failed to send to, which the broadcast's cleanup unregisters.
C19_TypingBypassesRelay ==
    [][TypingStep =>
          /\ relayvars' = relayvars
          /\ \A ws \in Sockets \ Failed(bc) : TopicsOf(Reg', ws) = TopicsOf(Reg, ws)
          /\ ~ReturnStep => Reg' = Reg]_vars

C19_Witness ==
    /\ bc.pc = "idle"
    /\ call.op = "frame" /\ IsTyping(call.frame)
    /\ \E ws \in Sockets :
          /\ sock[ws] = "dropped"
          /\ unreg_count[ws] = 1
          /\ ws \notin DOMAIN connection_metadata
    /\ \E ws \in Sockets : Len(inbox[ws]) > 0

\* C20: a connection route that has finished called the registration exactly once (its
\* handshake had succeeded), called the unregistration on its way out, ended without an
\* error of its own, and left the connection in no topic set, identity entry or metadata.
C20_RouteRegistersOnceAndUnregisters ==
    \A ws \in Sockets :
        route[ws].pc = "finished" =>
            /\ route[ws].registered = (IF route[ws].authenticated THEN 1 ELSE 0)
            /\ route[ws].unregistered >= 1
            /\ route[ws].raised = "none"
            /\ Absent(Reg, ws)

\* the peer of the connection is gone: it dropped, or its route has ended
Gone(ws) == sock[ws] \in {"dropped", "closed"}

\* C21: once a connection that joined a thread has gone away, a broadcast to the thread
\* does not raise, whether the thread still has an entry or not, and no step of it leaves
\* a frame with a connection that is gone: with no other member it delivers to nobody.
C21_BroadcastAfterUncleanExit ==
    [][/\ (FrameStep /\ IsTyping(call'.frame)) =>
              /\ bc'.pc \in {"idle", "send"}
              /\ call'.frame.thread_id \notin DOMAIN thread_connections
                     => (bc'.pc = "idle" /\ inbox' = inbox)
       /\ TypingBroadcast =>
              /\ bc'.pc \in {"idle", "send"}
              /\ \A ws \in Sockets : Gone(ws) => inbox'[ws] = inbox[ws]
       /\ (TypingBroadcast /\ ReturnStep /\ \A ws \in bc.at_call : ws \in Failed(bc)) =>
              \A ws \in Sockets : FramesOf(ws, bc.msg) = {}]_vars

C21_Witness ==
    /\ TypingBroadcast
    /\ Pending(bc, Reg) = {}
    /\ Cardinality(bc.at_call) = 1
    /\ bc.caller \notin bc.at_call
    /\ Failed(bc) = bc.at_call
    /\ \A ws \in Sockets : FramesOf(ws, bc.msg) = {}

\* C22: no key of community_connections or thread_connections maps to an empty set.
C22_NoEmptyTopicEntry ==
    /\ \A c \in DOMAIN community_connections : community_connections[c] # {}
    /\ \A t \in DOMAIN thread_connections : thread_connections[t] # {}

\* the last member of a community has left and the entry is gone
C22_Witness ==
    /\ call.op = "leave_community"
    /\ call.pre
    /\ call.key \notin DOMAIN community_connections

\* a route has registered ws in this step
RegisterStep(ws) == sock[ws] = "new" /\ sock'[ws] = "open"

\* ws is registered while the identity index holds another connection for its identity
Shadowed(ws) ==
    /\ ws \in DOMAIN connection_metadata
    /\ connection_metadata[ws].user_id \in DOMAIN user_connections
    /\ user_connections[connection_metadata[ws].user_id] # ws

\* C23: the identity index is last-writer-wins: a registration maps the identity to the
\* registering connection and leaves every connection registered before, with its
\* metadata and its topic memberships, as it was; a connection whose identity maps to a
\* later one still gets every broadcast of which it is a recipient and whose send to it
\* did not fail.
C23_IdentityLastWriterWins ==
    [][/\ \A ws \in Sockets : RegisterStep(ws) =>
              /\ user_connections'[connection_metadata'[ws].user_id] = ws
              /\ community_connections' = community_connections
              /\ thread_connections' = thread_connections
              /\ \A o \in DOMAIN connection_metadata \ {ws} :
                     /\ o \in DOMAIN connection_metadata'
                     /\ connection_metadata'[o] = connection_metadata[o]
       /\ ReturnStep =>
              \A ws \in bc.at_call :
                  (Shadowed(ws) /\ ws \notin Failed(bc)) => FramesOf(ws, bc.msg) # {}]_vars

C23_Witness ==
    /\ bc.pc = "send"
    /\ bc.kind # "all"
    /\ Pending(bc, Reg) = {}
    /\ \E ws \in Sent(bc) : Shadowed(ws) /\ FramesOf(ws, bc.msg) # {}

\* the handler has been invoked with an event in this step
DeliverStep == Len(handled') = Len(handled) + 1

\* the connections an event on the channel is for
Audience(channel) ==
    IF channel[1] = "community" THEN DictGet(community_connections, channel[2], {})
    ELSE IF channel[1] = "thread" THEN DictGet(thread_connections, channel[2], {})
    ELSE IF channel = get_global_channel THEN DOMAIN connection_metadata
    ELSE {}

SnapshotStep == bcount' = bcount + 1

\* ws is still in the metadata map although a disconnect has already taken it out of a
\* topic set its metadata lists, or out of the identity index
PartlyRemoved(ws) ==
    /\ ws \in DOMAIN connection_metadata
    /\ InDisconnect(ws)
    /\ \/ \E c \in connection_metadata[ws].communities : ~InIndex(community_connections, c, ws)
       \/ \E t \in connection_metadata[ws].threads : ~InIndex(thread_connections, t, ws)
       \/ route[ws].pc = "metadata"

\* C25: unregistering is atomic for a broadcast of another thread: no broadcast takes its
\* recipient snapshot while a connection is removed from some of its topic sets or from
\* the identity index but not yet from the metadata map.
C25_DisconnectAtomicForBroadcasts ==
    [][SnapshotStep => \A ws \in Sockets : ~PartlyRemoved(ws)]_vars

\* C26: once the gateway has shut down no connection is open, and the registry holds no
\* connection, no identity and no topic entry.
C26_ShutdownClosesAndUnregisters ==
    ~Serving =>
        /\ \A ws \in Sockets : sock[ws] \notin {"open", "dropped"}
        /\ DOMAIN connection_metadata = {}
        /\ DOMAIN user_connections = {}
        /\ DOMAIN community_connections = {}
        /\ DOMAIN thread_connections = {}

\* C27: every entry user_connections[u] is a connection registered with identity u, and
\* an identity that still has a registered connection is in the index: unregistering the
\* older of two connections of one identity leaves the identity mapped to the newer one.
C27_IdentityIndexSound ==
    /\ \A u \in DOMAIN user_connections :
           /\ user_connections[u] \in DOMAIN connection_metadata
           /\ connection_metadata[user_connections[u]].user_id = u
    /\ \A ws \in DOMAIN connection_metadata :
           connection_metadata[ws].user_id \in DOMAIN user_connections

\* C28: every socket in a community set or a thread set is a registered connection.
C28_TopicMembersAreRegistered ==
    /\ \A c \in DOMAIN community_connections :
           community_connections[c] \subseteq DOMAIN connection_metadata
    /\ \A t \in DOMAIN thread_connections :
           thread_connections[t] \subseteq DOMAIN connection_metadata

\* a callback has raised in this step of the listen loop
CallbackRaisedStep ==
    /\ Len(handled') = Len(handled) + 1
    /\ handled'[Len(handled')].raised

\* the channel and the message of each element of a sequence of events
Events(seq) == [i \in DOMAIN seq |-> [channel |-> seq[i].channel, msg |-> seq[i].msg]]

\* msg is in pub as published while the loop was listening
LiveIn(pub, msg) == \E i \in DOMAIN pub : pub[i].msg = msg /\ pub[i].live

PublishedLive(msg) == LiveIn(published, msg)

\* the events of h published while the loop listened are the events of pub published to
\* a channel of subs while it listened, in the same order
DispatchedInOrder(h, pub, subs) ==
    LET WasLive(x) == LiveIn(pub, x.msg)
        Subscribed(x) == x.live /\ x.channel \in DOMAIN subs
    IN  Events(SelectSeq(h, WasLive)) = Events(SelectSeq(pub, Subscribed))

\* C29: a callback that raises does not stop the listen loop: the loop is listening after
\* the step, and as long as no transport error or cancellation ends it and the
\* subscriptions stand as they were when it started, the events published to a
\* subscribed channel while it listens are exactly the ones dispatched, in publish order,
\* whether an earlier callback raised or not.
C29_CallbackErrorAbsorbed ==
    [][/\ CallbackRaisedStep => listen_pc' = "listening"
       /\ (listen_pc' = "listening" /\ pubsub'.queue = <<>> /\ call'.op = "listen") =>
              DispatchedInOrder(handled', published', subscribers')]_vars

\* a callback raised on the first event and the second one was dispatched after it
C29_Witness ==
    /\ listen_pc = "listening"
    /\ pubsub.queue = <<>>
    /\ Len(handled) = 2
    /\ handled[1].raised
    /\ ~handled[2].raised
    /\ handled[1].msg.eid < handled[2].msg.eid
    /\ PublishedLive(handled[1].msg) /\ PublishedLive(handled[2].msg)

BrokerOps == {"publish", "subscribe", "listen", "unsubscribe"}

\* C30: on a broker that has not been connected publish, subscribe and listen raise
\* (RuntimeError) and unsubscribe returns, and none of the four changes the subscriber
\* table, publishes or queues anything, or starts the loop.
C30_UnconnectedBrokerFailsCleanly ==
    [][\A op \in BrokerOps :
           (CallStep(op) /\ ~redis_client /\ ~pubsub.init) =>
               /\ call'.raised = IF op = "unsubscribe" THEN "none" ELSE "RuntimeError"
               /\ subscribers' = subscribers
               /\ published' = published
               /\ pubsub' = pubsub
               /\ handled' = handled
               /\ listen_pc' = listen_pc
               /\ redis_client' = redis_client]_vars

\* three calls on the unconnected broker, the last a subscribe that raised
C30_Witness ==
    /\ ~redis_client /\ ~pubsub.init
    /\ call.n = 3
    /\ call.op = "subscribe"
    /\ call.raised = "RuntimeError"
    /\ subscribers = <<>>
    /\ published = <<>>

====
